---- MODULE Spec2Model ----
(***************************************************************************)
(* A model of csm_mlx/finetune/trainer.py: the trainer's step/log/save     *)
(* bookkeeping (BaseTrainer.train_step, train, save_checkpoint,            *)
(* load_checkpoint and the two subclasses), the parameter flattening of    *)
(* _flatten_params and the target/mask indexing of compute_loss.           *)
(*                                                                         *)
(* Four specifications share the module:                                   *)
(*   Spec         the trainer object and its checkpoint directory          *)
(*   SpecTrain    the epoch / batch loop of train on that trainer          *)
(*   SpecFlatten  _flatten_params applied to bounded parameter trees       *)
(*   SpecLoss     compute_loss applied to bounded token / mask batches     *)
(***************************************************************************)
EXTENDS Integers, Sequences, FiniteSets, TLC

VARIABLES
    \* ---- the trainer object (BaseTrainer.__init__)
    ctor,              \* "none" | "ok" | "TypeError": how the last constructor call ended
    variant,           \* "full" (CSMTrainer) | "lora" (LoRATrainer)
    train_embeddings,  \* LoRATrainer.train_embeddings
    save_every,
    log_every,
    step,
    lr,                \* optimizer.learning_rate
    training_history,  \* [loss, learning_rate, step]: three lists
    weights,           \* the model's parameters, flat name -> tensor value
    trainable_params,  \* LoRATrainer.trainable_params (empty for the full variant)
    \* ---- the file system
    disk,              \* path -> file content
    \* ---- the position of a running train() call
    pc,                \* "idle" | "train"
    num_samples,
    batch_size,
    epochs,
    epoch,
    batch_indices,
    bpos,              \* next element of batch_indices (1-based)
    epoch_losses,
    \* ---- history of the run, read by the properties only
    lastOp,            \* the operation that produced this state
    lastErr,           \* the exception it raised, or "none"
    trainStartStep,    \* step when the running / last train() was entered
    lastSave,          \* [path, step, lr] of the most recent save_checkpoint
    loadedPath,        \* argument of the most recent load_checkpoint
    \* ---- SpecFlatten
    tree,              \* the argument of _flatten_params
    flatOut,           \* its result: [flat, warned], or "none" before the call
    \* ---- SpecLoss
    tokens,            \* [shape, at]: the batch_tokens array
    masks,             \* [shape, at]: the batch_masks array
    tokens2,           \* a second batch that differs from tokens at one masked-out target
    lossOut,           \* the outcome of compute_loss(tokens, masks), or "none"
    lossOut2           \* the outcome of compute_loss(tokens2, masks), or "none"

trainerVars == <<ctor, variant, train_embeddings, save_every, log_every, step, lr,
                 training_history, weights, trainable_params, disk, pc, num_samples, batch_size, epochs,
                 epoch, batch_indices, bpos, epoch_losses, lastOp, lastErr,
                 trainStartStep, lastSave, loadedPath>>
flattenVars == <<tree, flatOut>>
lossVars == <<tokens, masks, tokens2, lossOut, lossOut2>>
vars == <<trainerVars, flattenVars, lossVars>>

(***************************************************************************)
(* Bounds of the model.                                                    *)
(***************************************************************************)
MaxStep == 2        \* train_step is not taken beyond this step
MaxHist == 2        \* nor once training_history holds this many entries
MaxSamples == 2     \* len(dataset) ranges over 0..MaxSamples
MaxBatch == 2       \* batch_size ranges over 1..MaxBatch
MaxEpochs == 2      \* epochs ranges over 0..MaxEpochs
MaxEvery == 2       \* save_every and log_every range over 1..MaxEvery

LearningRates == {1, 2}     \* the values optimizer.learning_rate is built with
Losses == {1}               \* the values float(loss) takes
Versions == {0, 1}          \* the values a tensor takes under optimizer updates

(***************************************************************************)
(* Parameter trees: nested dicts and lists with tensors (objects that have *)
(* nbytes) and other objects at the leaves.                                *)
(***************************************************************************)
Tensor(v) == [kind |-> "tensor", val |-> v]
NonTensor == [kind |-> "other"]
DictNode(ks, f) == [kind |-> "dict", keys |-> ks, items |-> f]
ListNode(s) == [kind |-> "list", items |-> s]

EmptyMap == [k \in {} |-> 0]
NoFlat == [flat |-> EmptyMap, warned |-> <<>>]
NotFlattened == [done |-> FALSE, flat |-> EmptyMap, warned |-> <<>>]
NoArray == [shape |-> <<0, 0, 0>>, at |-> EmptyMap]
NotComputed == [done |-> FALSE, err |-> "none", per |-> <<>>, total |-> <<>>]

\* dict.update: the entries of `new` replace those of `acc`
DictUpdate(acc, new) == new @@ acc

\* flat_params.update(nested_params), with the warnings printed on the way
Merge(acc, r) == [flat |-> DictUpdate(acc.flat, r.flat), warned |-> acc.warned \o r.warned]

FullName(prefix, name) == IF prefix # "" THEN prefix \o "." \o name ELSE name

RECURSIVE FlattenParams(_, _)
RECURSIVE FlattenItems(_, _, _)
RECURSIVE FlattenList(_, _, _)

\* the list branch: a tensor is stored under "<full_name>.<i>", a list or dict is
\* flattened as {str(i): item}, anything else is passed over
FlattenList(items, full_name, i) ==
    IF i > Len(items) THEN NoFlat
    ELSE LET item == items[i]
             idx == ToString(i - 1)
             here == CASE item.kind = "tensor" ->
                            [flat |-> (full_name \o "." \o idx) :> item, warned |-> <<>>]
                       [] item.kind \in {"list", "dict"} ->
                            FlattenParams(DictNode(<<idx>>, idx :> item), full_name)
                       [] OTHER -> NoFlat
         IN  Merge(here, FlattenList(items, full_name, i + 1))

\* the loop over params_dict.items(), from its k-th entry on
FlattenItems(d, prefix, k) ==
    IF k > Len(d.keys) THEN NoFlat
    ELSE LET name == d.keys[k]
             param == d.items[name]
             full_name == FullName(prefix, name)
             here == CASE param.kind = "dict" -> FlattenParams(param, full_name)
                       [] param.kind = "list" -> FlattenList(param.items, full_name, 1)
                       [] param.kind = "tensor" ->
                            [flat |-> full_name :> param, warned |-> <<>>]
                       [] OTHER -> [flat |-> EmptyMap, warned |-> <<full_name>>]
         IN  Merge(here, FlattenItems(d, prefix, k + 1))

FlattenParams(params_dict, prefix) == FlattenItems(params_dict, prefix, 1)

(***************************************************************************)
(* The model object and the optimizer.                                     *)
(***************************************************************************)
ParamNames == {"backbone.w", "audio_head.0", "audio_head.1", "text_embeddings.weight"}

Pretrained == [n \in ParamNames |-> [of |-> n, ver |-> 0]]

\* model.parameters(): the nested tree of the model's arrays
ModelParameters(w) ==
    DictNode(<<"backbone", "audio_head", "text_embeddings">>,
             [k \in {"backbone", "audio_head", "text_embeddings"} |->
                CASE k = "backbone" -> DictNode(<<"w">>, "w" :> Tensor(w["backbone.w"]))
                  [] k = "audio_head" ->
                       ListNode(<<Tensor(w["audio_head.0"]), Tensor(w["audio_head.1"])>>)
                  [] OTHER -> DictNode(<<"weight">>,
                                       "weight" :> Tensor(w["text_embeddings.weight"]))])

\* model.trainable_parameters() of a model with adapters: the adapter arrays
TrainableParameters(w) ==
    DictNode(<<"backbone">>,
             "backbone" :> DictNode(<<"lora_a">>,
                                    "lora_a" :> Tensor([of |-> "backbone.lora_a", ver |-> 0])))

\* optimizer.update(model, grads): every trained array is replaced by a new one
OptimizerUpdate(w) ==
    [n \in DOMAIN w |-> [of |-> w[n].of, ver |-> (w[n].ver + 1) % Cardinality(Versions)]]

\* model.load_weights(path): the arrays of the file replace the model's
LoadWeights(w, file) == [n \in DOMAIN w |-> IF n \in DOMAIN file THEN file[n] ELSE w[n]]

(***************************************************************************)
(* Paths.  A path is the sequence of its components.                       *)
(***************************************************************************)
checkpoint_dir == <<"ckpts">>

Dirname(path) == SubSeq(path, 1, Len(path) - 1)

HistoryPath == checkpoint_dir \o <<"history.json">>

\* os.path.join(self.checkpoint_dir, "optimizer_state.json"), where save_checkpoint writes
SaveOptimizerStatePath == checkpoint_dir \o <<"optimizer_state.json">>

\* mutant: the optimizer state is looked up in the trainer's own checkpoint_dir
OptimizerStatePath_OwnDir(checkpoint_path) == SaveOptimizerStatePath

\* os.path.join(os.path.dirname(checkpoint_path), "optimizer_state.json"), where
\* load_checkpoint reads
OptimizerStatePath(checkpoint_path) == Dirname(checkpoint_path) \o <<"optimizer_state.json">>

\* get_checkpoint_prefix
CheckpointPrefix(v) == IF v = "lora" THEN "lora_ckpt" ELSE "ckpt"

\* f"{prefix}_{suffix}.safetensors" below checkpoint_dir; a suffix is the sequence of
\* the components a "/" in it separates, <<>> standing for None and ""
CheckpointPath(prefix, suffix, s) ==
    IF suffix # <<>>
    THEN checkpoint_dir \o
         [i \in 1..Len(suffix) |->
            (IF i = 1 THEN prefix \o "_" ELSE "") \o suffix[i] \o
            (IF i = Len(suffix) THEN ".safetensors" ELSE "")]
    ELSE checkpoint_dir \o <<prefix \o "_step_" \o ToString(s) \o ".safetensors">>

\* mutant: the epoch checkpoint is named by the 0-based loop variable
EpochSuffix_ZeroBased(e) == <<"epoch_" \o ToString(e)>>

\* the suffix train() passes after epoch number `e` (0-based)
EpochSuffix(e) == <<"epoch_" \o ToString(e + 1)>>

Exists(d, path) == path \in DOMAIN d
WriteFile(d, path, content) == (path :> content) @@ d

\* a weights file that no trainer wrote: its directory holds no optimizer_state.json
PretrainedPath == <<"pretrained", "model.safetensors">>

WeightFiles(d) == {p \in DOMAIN d : d[p].type = "weights"}

(***************************************************************************)
(* LoRATrainer.__init__                                                    *)
(***************************************************************************)
\* mlx.utils.tree_flatten: a list of (dotted name, array) pairs
TreeFlatten(t) == [type |-> "list", entries |-> FlattenParams(t, "").flat]

EmbeddingKeys == {"text_embeddings", "audio_embeddings"}

\* the loop over all_params.items() that fills self.embedding_params
EmbeddingParams(te, w) ==
    LET all_params == ModelParameters(w)
        names == IF te THEN {k \in DOMAIN all_params.items : k \in EmbeddingKeys} ELSE {}
    IN  [type |-> "dict", entries |-> [k \in names |-> all_params.items[k]]]

\* {**a, **b}: each operand of ** has to be a mapping
DictUnpack(a, b) ==
    IF a.type # "dict" \/ b.type # "dict"
    THEN [err |-> "TypeError", entries |-> EmptyMap]
    ELSE [err |-> "none", entries |-> DictUpdate(a.entries, b.entries)]

\* self.trainable_params = {**self.lora_params, **self.embedding_params}
LoRATrainableParams(te, w) ==
    DictUnpack(TreeFlatten(TrainableParameters(w)), EmbeddingParams(te, w))

\* the exception __init__ of the variant ends with, or "none"
ConstructorOutcome(v, te, w) ==
    IF v = "lora" THEN LoRATrainableParams(te, w).err ELSE "none"

CtorStatus(v, te, w) ==
    IF ConstructorOutcome(v, te, w) = "none" THEN "ok" ELSE ConstructorOutcome(v, te, w)

BuiltTrainableParams(v, te, w) ==
    IF v = "lora" THEN LoRATrainableParams(te, w).entries ELSE EmptyMap

RECURSIVE SetToSeq(_)
\* the keys of a dict in some order
SetToSeq(S) == IF S = {} THEN <<>> ELSE LET x == CHOOSE y \in S : TRUE
                                        IN  <<x>> \o SetToSeq(S \ {x})

\* get_params_to_save: the full variant reads the model, the adapter variant returns
\* the mapping it built in __init__
ParamsToSave(v, tp, w) ==
    IF v = "lora" THEN DictNode(SetToSeq(DOMAIN tp), tp) ELSE ModelParameters(w)

(***************************************************************************)
(* save_checkpoint                                                         *)
(***************************************************************************)
\* {k: v for k, v in flat_params.items() if hasattr(v, "nbytes")}
ValidParams(flat) ==
    LET ks == {k \in DOMAIN flat : flat[k].kind = "tensor"}
    IN  [k \in ks |-> flat[k].val]

\* the disk after save_checkpoint(suffix) at step s, learning rate l, weights w
SaveCheckpointDisk(d, suffix, s, l, w) ==
    LET checkpoint_path == CheckpointPath(CheckpointPrefix(variant), suffix, s)
        flat_params == FlattenParams(ParamsToSave(variant, trainable_params, w), "").flat
        d1 == WriteFile(d, checkpoint_path,
                        [type |-> "weights", data |-> ValidParams(flat_params)])
    IN  WriteFile(d1, SaveOptimizerStatePath,
                  [type |-> "json", data |-> [step |-> s, learning_rate |-> l]])

SaveRecord(suffix, s, l) ==
    [path |-> CheckpointPath(CheckpointPrefix(variant), suffix, s), step |-> s, lr |-> l]

NoSave == [path |-> <<>>, step |-> 0, lr |-> 0]

(***************************************************************************)
(* train_step                                                              *)
(***************************************************************************)
ShouldLog(s, le) == s % le = 0
ShouldSave(s, se) == s % se = 0

AppendHistory(h, loss, s, l) ==
    [loss |-> Append(h.loss, loss),
     learning_rate |-> Append(h.learning_rate, l),
     step |-> Append(h.step, s)]

EmptyHistory == [loss |-> <<>>, learning_rate |-> <<>>, step |-> <<>>]

\* the state train_step leaves when loss_and_grad_fn returned `loss`; the optimizer's
\* learning rate is a plain number, which update() leaves as it is
StepResult(loss) ==
    LET s1 == step + 1
        w1 == OptimizerUpdate(weights)
        logged == ShouldLog(s1, log_every)
        h1 == IF logged THEN AppendHistory(training_history, loss, s1, lr)
              ELSE training_history
        d1 == IF logged THEN WriteFile(disk, HistoryPath, [type |-> "json", data |-> h1])
              ELSE disk
        saved == ShouldSave(s1, save_every)
        d2 == IF saved THEN SaveCheckpointDisk(d1, <<>>, s1, lr, w1) ELSE d1
    IN  [step |-> s1, weights |-> w1, hist |-> h1, disk |-> d2,
         save |-> IF saved THEN SaveRecord(<<>>, s1, lr) ELSE lastSave]

CanStep == step < MaxStep /\ Len(training_history.step) < MaxHist

trainFrame == <<pc, num_samples, batch_size, epochs, epoch, batch_indices, bpos,
                epoch_losses, trainStartStep>>
config == <<ctor, variant, train_embeddings, save_every, log_every, trainable_params>>

(***************************************************************************)
(* The operations of the trainer.                                          *)
(***************************************************************************)
\* the program builds its trainer again (the same class and arguments) on the
\* checkpoint directory, with an optimizer at learning rate l0 and the model w0
New(l0, w0) ==
    /\ UNCHANGED <<flattenVars, lossVars>>
    /\ pc = "idle"
    /\ ctor' = CtorStatus(variant, train_embeddings, w0)
    /\ trainable_params' = BuiltTrainableParams(variant, train_embeddings, w0)
    /\ step' = 0
    /\ lr' = l0
    /\ training_history' = EmptyHistory
    /\ weights' = w0
    /\ lastOp' = "new"
    /\ lastErr' = ConstructorOutcome(variant, train_embeddings, w0)
    /\ loadedPath' = <<>>
    /\ UNCHANGED <<variant, train_embeddings, save_every, log_every, disk, trainFrame,
                   lastSave>>

\* train_step called by the user; loss_and_grad_fn returns.  (When it raises,
\* line 121 leaves the trainer and the disk as they are: a stuttering step.)
TrainStep(loss) ==
    /\ UNCHANGED <<flattenVars, lossVars>>
    /\ ctor = "ok" /\ pc = "idle" /\ CanStep
    /\ LET r == StepResult(loss)
       IN  /\ step' = r.step
           /\ weights' = r.weights
           /\ training_history' = r.hist
           /\ disk' = r.disk
           /\ lastSave' = r.save
    /\ lastOp' = "train_step"
    /\ lastErr' = "none"
    /\ loadedPath' = <<>>
    /\ UNCHANGED <<config, lr, trainFrame>>

\* save_checkpoint(suffix) called by the user
SaveCheckpoint(suffix) ==
    /\ UNCHANGED <<flattenVars, lossVars>>
    /\ ctor = "ok" /\ pc = "idle"
    /\ disk' = SaveCheckpointDisk(disk, suffix, step, lr, weights)
    /\ lastSave' = SaveRecord(suffix, step, lr)
    /\ lastOp' = "save"
    /\ lastErr' = "none"
    /\ loadedPath' = <<>>
    /\ UNCHANGED <<config, step, lr, training_history, weights, trainFrame>>

RestoredStep(optimizer_state) == optimizer_state.step
\* mutant: the learning rate is read under the wrong key
RestoredLearningRate_WrongKey(optimizer_state) == optimizer_state.step

RestoredLearningRate(optimizer_state) == optimizer_state.learning_rate

\* load_checkpoint(checkpoint_path) of a weights file that exists
LoadCheckpoint(checkpoint_path) ==
    /\ UNCHANGED <<flattenVars, lossVars>>
    /\ ctor = "ok" /\ pc = "idle"
    /\ checkpoint_path \in WeightFiles(disk)
    /\ weights' = LoadWeights(weights, disk[checkpoint_path].data)
    /\ LET optimizer_state_path == OptimizerStatePath(checkpoint_path)
       IN  IF Exists(disk, optimizer_state_path)
           THEN /\ step' = RestoredStep(disk[optimizer_state_path].data)
                /\ lr' = RestoredLearningRate(disk[optimizer_state_path].data)
           ELSE UNCHANGED <<step, lr>>
    /\ loadedPath' = checkpoint_path
    /\ lastOp' = "load"
    /\ lastErr' = "none"
    /\ UNCHANGED <<config, training_history, disk, trainFrame, lastSave>>

(***************************************************************************)
(* train                                                                   *)
(***************************************************************************)
RECURSIVE RangeFrom_Inclusive(_, _, _)
\* mutant: the range includes its stop value
RangeFrom_Inclusive(i, n, bs) ==
    IF i > n THEN <<>> ELSE <<i>> \o RangeFrom_Inclusive(i + bs, n, bs)

RECURSIVE RangeFrom(_, _, _)
\* range(i, n, bs) as a list
RangeFrom(i, n, bs) == IF i >= n THEN <<>> ELSE <<i>> \o RangeFrom(i + bs, n, bs)

\* indices[i : j].tolist() of indices = arange(n)
SliceIndices(n, i, j) == [k \in 1..((IF j < n THEN j ELSE n) - i) |-> i + k - 1]

\* the list of batches of one epoch (shuffle = False; a permutation changes which
\* samples a batch holds, not how many batches there are or how long each is)
BatchIndices(n, bs) ==
    LET starts == RangeFrom(0, n, bs)
    IN  [k \in 1..Len(starts) |-> SliceIndices(n, starts[k], starts[k] + bs)]

RECURSIVE SeqSum(_)
SeqSum(s) == IF s = <<>> THEN 0 ELSE Head(s) + SeqSum(Tail(s))

\* mutant: an empty epoch averages to 0 instead of dividing by zero
EpochAverage_Guarded(losses) ==
    IF Len(losses) = 0 THEN [err |-> "none", val |-> 0]
    ELSE [err |-> "none", val |-> SeqSum(losses) \div Len(losses)]

\* sum(epoch_losses) / len(epoch_losses)
EpochAverage(losses) ==
    IF Len(losses) = 0 THEN [err |-> "ZeroDivisionError", val |-> 0]
    ELSE [err |-> "none", val |-> SeqSum(losses) \div Len(losses)]

\* the frame of train() is gone: it returned or raised
TrainLeft ==
    /\ pc' = "idle"
    /\ num_samples' = 0
    /\ batch_size' = 1
    /\ epochs' = 0
    /\ epoch' = 0
    /\ batch_indices' = <<>>
    /\ bpos' = 1
    /\ epoch_losses' = <<>>
    /\ trainStartStep' = 0

\* train(dataset, batch_size, epochs) is entered: lines 146-147, and the batches of
\* the first epoch
TrainStart(n, bs, E) ==
    /\ UNCHANGED <<flattenVars, lossVars>>
    /\ ctor = "ok" /\ pc = "idle"
    /\ pc' = "train"
    /\ num_samples' = n
    /\ batch_size' = bs
    /\ epochs' = E
    /\ epoch' = 0
    /\ batch_indices' = BatchIndices(n, bs)
    /\ bpos' = 1
    /\ epoch_losses' = <<>>
    /\ trainStartStep' = step
    /\ lastOp' = "train_start"
    /\ lastErr' = "none"
    /\ loadedPath' = <<>>
    /\ UNCHANGED <<config, step, lr, training_history, weights, disk, lastSave>>

\* one pass of the loop over batch_indices: train_step returns its loss
TrainBatch(loss) ==
    /\ UNCHANGED <<flattenVars, lossVars>>
    /\ pc = "train" /\ epoch < epochs /\ bpos <= Len(batch_indices) /\ CanStep
    /\ LET r == StepResult(loss)
       IN  /\ step' = r.step
           /\ weights' = r.weights
           /\ training_history' = r.hist
           /\ disk' = r.disk
           /\ lastSave' = r.save
    /\ epoch_losses' = Append(epoch_losses, loss)
    /\ bpos' = bpos + 1
    /\ lastOp' = "train_step"
    /\ lastErr' = "none"
    /\ UNCHANGED <<config, lr, pc, num_samples, batch_size, epochs, epoch, batch_indices,
                   trainStartStep, loadedPath>>

\* one pass of the loop over batch_indices: train_step raises, and so does train
TrainBatchRaises ==
    /\ UNCHANGED <<flattenVars, lossVars>>
    /\ pc = "train" /\ epoch < epochs /\ bpos <= Len(batch_indices)
    /\ TrainLeft
    /\ lastOp' = "train_step_raised"
    /\ lastErr' = "LossError"
    /\ UNCHANGED <<config, step, lr, training_history, weights, disk, lastSave, loadedPath>>

\* after the last batch of an epoch: the average, then the epoch checkpoint, then
\* the batches of the next epoch
TrainEpochEnd ==
    /\ UNCHANGED <<flattenVars, lossVars>>
    /\ pc = "train" /\ epoch < epochs /\ bpos > Len(batch_indices)
    /\ IF EpochAverage(epoch_losses).err # "none"
       THEN /\ TrainLeft
            /\ lastOp' = "train_raised"
            /\ lastErr' = EpochAverage(epoch_losses).err
            /\ UNCHANGED <<disk, lastSave>>
       ELSE /\ disk' = SaveCheckpointDisk(disk, EpochSuffix(epoch), step, lr, weights)
            /\ lastSave' = SaveRecord(EpochSuffix(epoch), step, lr)
            /\ epoch' = epoch + 1
            /\ bpos' = 1
            /\ epoch_losses' = <<>>
            /\ lastOp' = "epoch_end"
            /\ lastErr' = "none"
            /\ UNCHANGED <<pc, num_samples, batch_size, epochs, batch_indices,
                           trainStartStep>>
    /\ UNCHANGED <<config, step, lr, training_history, weights, loadedPath>>

\* return self.training_history
TrainReturn ==
    /\ UNCHANGED <<flattenVars, lossVars>>
    /\ pc = "train" /\ epoch = epochs
    /\ TrainLeft
    /\ lastOp' = "train_return"
    /\ lastErr' = "none"
    /\ UNCHANGED <<config, step, lr, training_history, weights, disk, lastSave, loadedPath>>

(***************************************************************************)
(* Specification of the trainer.                                           *)
(***************************************************************************)
Variants == {"full", "lora"}
\* the suffix the user calls save_checkpoint with: None (train() passes its own)
UserSuffixes == {<<>>}

\* the variables of the other specifications, at rest
FlattenIdle == tree = NonTensor /\ flatOut = NotFlattened
LossIdle == /\ tokens = NoArray /\ masks = NoArray /\ tokens2 = NoArray
            /\ lossOut = NotComputed /\ lossOut2 = NotComputed

\* the state after the program has built its trainer on an empty checkpoint directory
TrainerInit ==
    /\ variant \in Variants
    /\ train_embeddings \in (IF variant = "lora" THEN BOOLEAN ELSE {FALSE})
    /\ save_every \in 1..MaxEvery
    /\ log_every \in 1..MaxEvery
    /\ ctor = CtorStatus(variant, train_embeddings, Pretrained)
    /\ trainable_params = BuiltTrainableParams(variant, train_embeddings, Pretrained)
    /\ step = 0
    /\ lr \in LearningRates
    /\ training_history = EmptyHistory
    /\ weights = Pretrained
    /\ disk = (PretrainedPath :> [type |-> "weights", data |-> Pretrained])
    /\ pc = "idle"
    /\ num_samples = 0
    /\ batch_size = 1
    /\ epochs = 0
    /\ epoch = 0
    /\ batch_indices = <<>>
    /\ bpos = 1
    /\ epoch_losses = <<>>
    /\ lastOp = "new"
    /\ lastErr = ConstructorOutcome(variant, train_embeddings, Pretrained)
    /\ trainStartStep = 0
    /\ lastSave = NoSave
    /\ loadedPath = <<>>

Init == TrainerInit /\ FlattenIdle /\ LossIdle

\* The checkpoint lifecycle: the user builds trainers, steps, saves and loads.
\* train() is a sequence of train_step and save_checkpoint calls; SpecTrain follows it.
Next ==
    \/ \E l0 \in LearningRates : New(l0, weights)
    \/ \E loss \in Losses : TrainStep(loss)
    \/ \E suffix \in UserSuffixes : SaveCheckpoint(suffix)
    \/ \E p \in DOMAIN disk : LoadCheckpoint(p)

Spec == Init /\ [][Next]_vars

\* train() on a trainer that may have stepped, saved and loaded before
NextTrain ==
    \/ \E loss \in Losses : TrainStep(loss)
    \/ \E p \in DOMAIN disk : LoadCheckpoint(p)
    \/ \E n \in 0..MaxSamples, bs \in 1..MaxBatch, E \in 0..MaxEpochs : TrainStart(n, bs, E)
    \/ \E loss \in Losses : TrainBatch(loss)
    \/ TrainBatchRaises
    \/ TrainEpochEnd
    \/ TrainReturn

SpecTrain == Init /\ [][NextTrain]_vars

(***************************************************************************)
(* Specification of _flatten_params: the function applied to every         *)
(* parameter tree of bounded depth and width.                              *)
(***************************************************************************)
MaxDepth == 2       \* nesting below the top-level dict
MaxWidth == 2       \* entries of a dict, elements of a list

Leaves == {Tensor(1), NonTensor}
KeyNames == <<"a", "b", "c", "d">>
KeySeqs == {SubSeq(KeyNames, 1, n) : n \in 0..MaxWidth}
SeqRange(q) == {q[i] : i \in 1..Len(q)}

DictsOver(S) == UNION {{DictNode(ks, f) : f \in [SeqRange(ks) -> S]} : ks \in KeySeqs}
ListsOver(S) == UNION {{ListNode(q) : q \in [1..n -> S]} : n \in 0..MaxWidth}

RECURSIVE TreesOfDepth(_)
TreesOfDepth(d) ==
    IF d = 0 THEN Leaves
    ELSE LET S == TreesOfDepth(d - 1) IN Leaves \cup DictsOver(S) \cup ListsOver(S)

TrainerIdle ==
    /\ TrainerInit
    /\ variant = "full" /\ save_every = 1 /\ log_every = 1 /\ lr = 1

FlattenInit ==
    /\ tree \in DictsOver(TreesOfDepth(MaxDepth - 1))
    /\ flatOut = NotFlattened
    /\ TrainerIdle
    /\ LossIdle

\* self._flatten_params(tree)
CallFlatten ==
    /\ ~flatOut.done
    /\ flatOut' = [done |-> TRUE,
                   flat |-> FlattenParams(tree, "").flat,
                   warned |-> FlattenParams(tree, "").warned]
    /\ UNCHANGED <<tree, trainerVars, lossVars>>

NextFlatten == CallFlatten

SpecFlatten == FlattenInit /\ [][NextFlatten]_vars

(***************************************************************************)
(* Specification of compute_loss.  An array is a record of its shape and   *)
(* its elements under 0-based index tuples.  The model object's forward    *)
(* pass is the supplied model: a row of logits is named by the head that   *)
(* produced it and the position (b, t) it was computed at.                 *)
(***************************************************************************)
MaxB == 2               \* batch elements
MaxT == 3               \* timesteps
MaxPositions == 3       \* positions (b, t) of a batch
NAudioCodebooks == 2    \* self.model.n_audio_codebooks
Vocab == {0, 1}

Indices2(sh) == (0..(sh[1] - 1)) \X (0..(sh[2] - 1))
Indices3(sh) == (0..(sh[1] - 1)) \X (0..(sh[2] - 1)) \X (0..(sh[3] - 1))
NonNeg(n) == IF n < 0 THEN 0 ELSE n

\* x[:, :, :-1]
SliceDropLastCodebook(x) ==
    LET sh == <<x.shape[1], x.shape[2], NonNeg(x.shape[3] - 1)>>
    IN  [shape |-> sh, at |-> [i \in Indices3(sh) |-> x.at[i]]]

\* x[..., 1:] of a three-axis array: the ellipsis covers the first two axes and the
\* slice applies to the last one
SliceEllipsisFrom1(x) ==
    LET sh == <<x.shape[1], x.shape[2], NonNeg(x.shape[3] - 1)>>
    IN  [shape |-> sh, at |-> [i \in Indices3(sh) |-> x.at[<<i[1], i[2], i[3] + 1>>]]]

InBounds(x, index) == index < x.shape[3]

\* x[:, :, index] and x[..., index], for an index inside the last axis
PickCodebook(x, index) ==
    LET sh == <<x.shape[1], x.shape[2]>>
    IN  [shape |-> sh, at |-> [i \in Indices2(sh) |-> x.at[<<i[1], i[2], index>>]]]

\* what a read outside the last axis yields when it does not fail
OutOfBoundsRead(x, v) ==
    LET sh == <<x.shape[1], x.shape[2]>>
    IN  [shape |-> sh, at |-> [i \in Indices2(sh) |-> v]]

\* x.reshape(-1) of a two-axis array, row-major
Reshape1(x) ==
    [k \in 1..(x.shape[1] * x.shape[2]) |->
        x.at[<<(k - 1) \div x.shape[2], (k - 1) % x.shape[2]>>]]

\* logits[..., :-1, :].reshape(-1, V) for codebook 0, decoder rows for the others:
\* the rows of B * len positions, row-major
LogitRows(head, B, len) ==
    [k \in 1..(B * len) |-> [head |-> head, b |-> (k - 1) \div len, t |-> (k - 1) % len]]

\* mlx.nn.losses.cross_entropy(logits, targets, reduction="none") with class-index
\* targets: the shapes must agree
CrossEntropy(logits, targets) ==
    IF Len(targets) # Len(logits)
    THEN [err |-> "ValueError", val |-> <<>>]
    ELSE [err |-> "none",
          val |-> [k \in 1..Len(logits) |-> [logits |-> logits[k], target |-> targets[k]]]]

\* a * b of two one-axis arrays, with broadcasting
Multiply(a, b) ==
    CASE Len(a) = Len(b) ->
           [err |-> "none", val |-> [k \in 1..Len(a) |-> [ce |-> a[k], mask |-> b[k]]]]
      [] Len(a) = 1 /\ Len(b) # 1 ->
           [err |-> "none", val |-> [k \in 1..Len(b) |-> [ce |-> a[1], mask |-> b[k]]]]
      [] Len(b) = 1 /\ Len(a) # 1 ->
           [err |-> "none", val |-> [k \in 1..Len(a) |-> [ce |-> a[k], mask |-> b[1]]]]
      [] OTHER -> [err |-> "ValueError", val |-> <<>>]

RECURSIVE WeightedTerms(_)
\* the sum of ce * mask, as the terms that enter it with weight one
WeightedTerms(prod) ==
    IF prod = <<>> THEN <<>>
    ELSE (IF Head(prod).mask = 1 THEN <<Head(prod).ce>> ELSE <<>>)
         \o WeightedTerms(Tail(prod))

\* (ce * mask).sum() / mask.sum(); a zero denominator gives nan
MaskedMean(prod, mask) == [sum |-> WeightedTerms(prod), over |-> SeqSum(mask)]

NoLoss == [sum |-> <<>>, over |-> 0]

\* the loss of codebook `index`: the arguments of its cross_entropy call and what
\* the call and the masked mean make of them
CodebookLoss(index, shifted_audio_tokens, audio_masks, oob) ==
    LET B == audio_masks.shape[1]
        T == audio_masks.shape[2]
        rows == LogitRows(index, B, NonNeg(T - 1))
        picked == IF InBounds(shifted_audio_tokens, index)
                  THEN PickCodebook(shifted_audio_tokens, index)
                  ELSE OutOfBoundsRead(shifted_audio_tokens, oob.val)
        targets == Reshape1(picked)
        ce == CrossEntropy(rows, targets)
        mask == Reshape1(PickCodebook(audio_masks, index))
        prod == Multiply(ce.val, mask)
    IN  CASE ~InBounds(shifted_audio_tokens, index) /\ oob.raises ->
               [err |-> "IndexError", rows |-> rows, targets |-> <<>>, loss |-> NoLoss]
          [] ce.err # "none" ->
               [err |-> ce.err, rows |-> rows, targets |-> targets, loss |-> NoLoss]
          [] prod.err # "none" ->
               [err |-> prod.err, rows |-> rows, targets |-> targets, loss |-> NoLoss]
          [] OTHER ->
               [err |-> "none", rows |-> rows, targets |-> targets,
                loss |-> MaskedMean(prod.val, mask)]

RECURSIVE CodebookLosses(_, _, _, _, _)
\* codebook 0, then the loop over range(1, n_audio_codebooks), up to the first error
CodebookLosses(index, n, shifted_audio_tokens, audio_masks, oob) ==
    IF index >= n THEN <<>>
    ELSE LET ci == CodebookLoss(index, shifted_audio_tokens, audio_masks, oob)
         IN  IF ci.err # "none" THEN <<ci>>
             ELSE <<ci>> \o CodebookLosses(index + 1, n, shifted_audio_tokens, audio_masks, oob)

ComputeLoss(tok, msk, oob) ==
    LET audio_tokens == SliceDropLastCodebook(tok)
        shifted_audio_tokens == SliceEllipsisFrom1(audio_tokens)
        audio_masks == SliceDropLastCodebook(msk)
        per == CodebookLosses(0, NAudioCodebooks, shifted_audio_tokens, audio_masks, oob)
        err == IF per = <<>> THEN "none" ELSE per[Len(per)].err
    IN  [done |-> TRUE, err |-> err, per |-> per,
         total |-> IF err = "none" THEN [i \in 1..Len(per) |-> per[i].loss] ELSE <<>>]

AudioCells(x) == {i \in DOMAIN x.at : i[3] < x.shape[3] - 1}

\* the batches of shape (B, T, n_audio_codebooks + 1); the text slot holds 1
Batches(B, T) ==
    LET sh == <<B, T, NAudioCodebooks + 1>>
        audio == Indices3(<<B, T, NAudioCodebooks>>)
    IN  {[shape |-> sh,
          at |-> [i \in Indices3(sh) |-> IF i \in audio THEN g[i] ELSE 1]] :
            g \in [audio -> Vocab]}

\* the batch with the token of one cell replaced
WithToken(x, cell, v) == [x EXCEPT !.at[cell] = v]

LossInit ==
    /\ \E B \in 1..MaxB, T \in 1..MaxT :
          /\ B * T <= MaxPositions
          /\ tokens \in Batches(B, T)
          /\ masks \in Batches(B, T)
    /\ tokens2 \in {tokens} \cup
                   {WithToken(tokens, c, 1 - tokens.at[c]) :
                      c \in {i \in AudioCells(tokens) : masks.at[i] = 0}}
    /\ lossOut = NotComputed
    /\ lossOut2 = NotComputed
    /\ TrainerIdle
    /\ FlattenIdle

\* a read outside an axis either raises or yields some value
OutOfBoundsOutcomes == {[raises |-> TRUE, val |-> 0]} \cup {[raises |-> FALSE, val |-> v] : v \in Vocab}

\* self.compute_loss(tokens, masks) and self.compute_loss(tokens2, masks)
CallComputeLoss(oob) ==
    /\ ~lossOut.done
    /\ lossOut' = ComputeLoss(tokens, masks, oob)
    /\ lossOut2' = ComputeLoss(tokens2, masks, oob)
    /\ UNCHANGED <<tokens, masks, tokens2, trainerVars, flattenVars>>

NextLoss == \E oob \in OutOfBoundsOutcomes : CallComputeLoss(oob)

SpecLoss == LossInit /\ [][NextLoss]_vars

(***************************************************************************)
(* Properties of the trainer.                                              *)
(***************************************************************************)
\* the least k with k * b >= n
CeilDiv(n, b) == CHOOSE k \in 0..n : k * b >= n /\ (k = 0 \/ (k - 1) * b < n)

\* the directory of the file load_checkpoint was last called with holds an
\* optimizer_state.json
LoadedDirHasState(path, d) ==
    (SubSeq(path, 1, Len(path) - 1) \o <<"optimizer_state.json">>) \in DOMAIN d

PrefixOfVariant == IF variant = "lora" THEN "lora_ckpt" ELSE "ckpt"
StepFile(s) == <<"ckpts", PrefixOfVariant \o "_step_" \o ToString(s) \o ".safetensors">>
EpochFile(e) == <<"ckpts", PrefixOfVariant \o "_epoch_" \o ToString(e) \o ".safetensors">>
StateFile == <<"ckpts", "optimizer_state.json">>
HistoryFile == <<"ckpts", "history.json">>

StrictlyIncreasing(s) == \A i \in 1..(Len(s) - 1) : s[i] < s[i + 1]

\* C1: every train_step that returns raises step by exactly 1; once epoch e of a
\* train() call is over, step is the step at entry plus e * ceil(num_samples /
\* batch_size); when train(epochs = E) returns, it is the step at entry plus
\* E * ceil(num_samples / batch_size).
C1_StepCount ==
    [][ /\ (lastOp' = "train_step" => step' = step + 1)
        /\ (lastOp' = "epoch_end" =>
              step' = trainStartStep + epoch' * CeilDiv(num_samples, batch_size))
        /\ (lastOp' = "train_return" =>
              step' = trainStartStep + epochs * CeilDiv(num_samples, batch_size)) ]_vars

\* train() has run two or more epochs whose last batch is a partial one, and is
\* about to return
C1_Witness ==
    /\ pc = "train" /\ epoch = epochs /\ epochs >= 2
    /\ num_samples % batch_size # 0
    /\ step = trainStartStep + epochs * CeilDiv(num_samples, batch_size)

\* C2: whenever train_step has finished with step % log_every = 0, history.json
\* holds exactly step \div log_every entries in each of its three lists, and the
\* recorded steps are strictly increasing.
C2_HistoryCount ==
    (lastOp = "train_step" /\ step % log_every = 0) =>
        /\ HistoryFile \in DOMAIN disk
        /\ LET h == disk[HistoryFile].data
           IN  /\ Len(h.step) = step \div log_every
               /\ Len(h.loss) = step \div log_every
               /\ Len(h.learning_rate) = step \div log_every
               /\ StrictlyIncreasing(h.step)

\* C3: when the directory of the loaded weights file holds optimizer_state.json,
\* load_checkpoint leaves step and learning_rate at the values the most recent
\* save_checkpoint wrote, whichever weights file was loaded.
C3_LoadRestoresLastSave ==
    (lastOp = "load" /\ LoadedDirHasState(loadedPath, disk)) =>
        (step = lastSave.step /\ lr = lastSave.lr)

\* the weights file of step 1 is loaded after a later save has rewritten
\* optimizer_state.json at step 2
C3_Witness ==
    /\ lastOp = "load" /\ loadedPath = StepFile(1)
    /\ lastSave.path # StepFile(1)
    /\ step = 2

\* C4: both trainer variants can be built; the file save_checkpoint writes holds
\* all model parameters (full variant) or only the adapter parameters plus, with
\* train_embeddings, the embedding parameters (adapter variant), each at the
\* model's value at the save; load_checkpoint of a file leaves the model's
\* parameters at the values the file holds.
C4_RoundTrip ==
    /\ ctor = "ok"
    /\ lastOp = "save" =>
         LET data == disk[lastSave.path].data
         IN  /\ variant = "full" => DOMAIN data = ParamNames
             /\ variant = "lora" =>
                  DOMAIN data = {"backbone.lora_a"} \cup
                      (IF train_embeddings THEN {"text_embeddings.weight"} ELSE {})
             /\ \A n \in DOMAIN data \cap DOMAIN weights : data[n] = weights[n]
    /\ lastOp = "load" =>
         \A n \in DOMAIN disk[loadedPath].data : weights[n] = disk[loadedPath].data[n]

\* C7: between the last train_step of epoch e and the first of epoch e + 1 (or the
\* return), the file <prefix>_epoch_<e>.safetensors holds the model's parameters
\* and optimizer_state.json holds the current step; when the step-based save
\* fired on that last step, <prefix>_step_<N>.safetensors holds them as well.
C7_EpochCheckpoint ==
    (pc = "train" /\ epoch >= 1 /\ bpos = 1) =>
        /\ EpochFile(epoch) \in DOMAIN disk
        /\ disk[EpochFile(epoch)].data = weights
        /\ StateFile \in DOMAIN disk
        /\ disk[StateFile].data = [step |-> step, learning_rate |-> lr]
        /\ step % save_every = 0 =>
             (StepFile(step) \in DOMAIN disk /\ disk[StepFile(step)].data = weights)

\* the second epoch is over and the step-based save fired on its last step
C7_Witness ==
    /\ pc = "train" /\ epoch = 2 /\ bpos = 1
    /\ save_every = 2 /\ step % save_every = 0
    /\ StepFile(step) \in DOMAIN disk

\* C8: load_checkpoint of a weights file whose directory holds no
\* optimizer_state.json leaves step, learning_rate and training_history (and the
\* disk) as they were.
C8_LoadWithoutState ==
    [][ (lastOp' = "load" /\ ~LoadedDirHasState(loadedPath', disk)) =>
            UNCHANGED <<step, lr, training_history, disk>> ]_vars

\* such a file is loaded by a trainer that has stepped and logged, while its own
\* checkpoint directory holds an optimizer_state.json of another step
C8_Witness ==
    /\ lastOp = "load" /\ ~LoadedDirHasState(loadedPath, disk)
    /\ StateFile \in DOMAIN disk /\ disk[StateFile].data.step # step
    /\ Len(training_history.step) > 0

\* C10: train() with epochs >= 1 on an empty dataset takes no train_step and
\* raises ZeroDivisionError with step, training_history and the disk as at entry;
\* it does not return.
C10_EmptyDataset ==
    [][ /\ (pc = "idle" /\ pc' = "train") => UNCHANGED <<step, training_history, disk>>
        /\ (pc = "train" /\ num_samples = 0 /\ epochs >= 1) =>
              /\ lastOp' = "train_raised"
              /\ lastErr' = "ZeroDivisionError"
              /\ pc' = "idle"
              /\ step = trainStartStep
              /\ UNCHANGED <<step, lr, weights, training_history, disk>> ]_vars

\* the failure, on a trainer that had stepped and logged before
C10_Witness ==
    /\ lastOp = "train_raised" /\ lastErr = "ZeroDivisionError"
    /\ step > 0 /\ Len(training_history.step) > 0

(***************************************************************************)
(* Properties of _flatten_params.                                          *)
(***************************************************************************)
DottedName(prefix, name) == IF prefix = "" THEN name ELSE prefix \o "." \o name

RECURSIVE LeafPaths(_, _)
\* the leaves of a tree, each with the dotted path to it
LeafPaths(node, path) ==
    CASE node.kind = "dict" ->
           UNION {LeafPaths(node.items[k], DottedName(path, k)) : k \in DOMAIN node.items}
      [] node.kind = "list" ->
           UNION {LeafPaths(node.items[i], DottedName(path, ToString(i - 1))) :
                    i \in 1..Len(node.items)}
      [] OTHER -> {<<path, node>>}

TensorLeaves(t) == {l \in LeafPaths(t, "") : l[2].kind = "tensor"}
OtherLeaves(t) == {l \in LeafPaths(t, "") : l[2].kind # "tensor"}

\* C9: _flatten_params returns a flat mapping of exactly the tensor leaves of the
\* tree, each under its dotted path, and prints a warning for every non-tensor
\* leaf, in a mapping or in a list.
C9_FlattenWarnsEveryNonTensor ==
    flatOut.done =>
        /\ DOMAIN flatOut.flat = {l[1] : l \in TensorLeaves(tree)}
        /\ \A l \in TensorLeaves(tree) : flatOut.flat[l[1]] = l[2]
        /\ SeqRange(flatOut.warned) = {l[1] : l \in OtherLeaves(tree)}
        /\ Len(flatOut.warned) = Cardinality(OtherLeaves(tree))

(***************************************************************************)
(* Properties of compute_loss.                                             *)
(***************************************************************************)
\* the token of codebook i that follows position (b, t)
NextToken(b, t, i) == tokens.at[<<b, t + 1, i>>]

PredictionPositions == tokens.shape[1] * (tokens.shape[2] - 1)

\* the batch has at least two timesteps, so there is something to predict
HasPredictionPositions == tokens.shape[2] >= 2

\* the cross-entropy terms of codebook i at the positions whose mask is 1
ValidTerms(out, i) ==
    SelectSeq([k \in 1..Len(out.per[i + 1].rows) |->
                  [logits |-> out.per[i + 1].rows[k],
                   target |-> out.per[i + 1].targets[k],
                   mask |-> masks.at[<<out.per[i + 1].rows[k].b,
                                       out.per[i + 1].rows[k].t + 1, i>>]]],
              LAMBDA e : e.mask = 1)

\* C5: for every audio codebook i, batch element b and prediction position t in
\* 0..T-2, the target compared with the logits at position t is tokens[b, t+1, i],
\* and there are as many logit positions as target positions, T-1 per batch element.
C5_TargetsAreNextTokens ==
    (lossOut.done /\ HasPredictionPositions) =>
        /\ lossOut.err = "none"
        /\ Len(lossOut.per) = NAudioCodebooks
        /\ \A i \in 0..(NAudioCodebooks - 1) :
              /\ Len(lossOut.per[i + 1].rows) = PredictionPositions
              /\ Len(lossOut.per[i + 1].targets) = PredictionPositions
              /\ \A k \in 1..PredictionPositions :
                    lossOut.per[i + 1].targets[k] =
                        NextToken(lossOut.per[i + 1].rows[k].b,
                                  lossOut.per[i + 1].rows[k].t, i)

\* C6: the loss of every codebook is the mean of the per-position cross-entropy
\* over the positions whose mask is 1, so two batches with the same masks that
\* differ only in target tokens under a mask of 0 give the same loss.
C6_MaskedMeanIgnoresMaskedTargets ==
    (lossOut.done /\ HasPredictionPositions) =>
        /\ lossOut.err = "none"
        /\ lossOut2.err = "none"
        /\ Len(lossOut.per) = NAudioCodebooks
        /\ \A i \in 0..(NAudioCodebooks - 1) :
              /\ Len(lossOut.per[i + 1].loss.sum) = lossOut.per[i + 1].loss.over
              /\ lossOut.per[i + 1].loss.over = Len(ValidTerms(lossOut, i))
        /\ lossOut2.total = lossOut.total

====
